---- MODULE Spec2Model ----
(***************************************************************************)
(* revelryengine/gltf: construction of the GLTF root (version and          *)
(* extension gate, collections, dereferencing) and the asynchronous load   *)
(* fan-out over the graph (GLTF.load, Mesh.load, Values.load and the       *)
(* KHR_draco_mesh_compression primitive extension).                        *)
(*                                                                         *)
(* Promises are modelled as call frames: a frame is one execution of an    *)
(* async load body; its pc is the await it is suspended at, "ok" or        *)
(* "rejected".  A synchronous run of JavaScript (a constructor, the part   *)
(* of an async function up to its next await, every call nested in it) is  *)
(* one action.                                                             *)
(***************************************************************************)
EXTENDS Integers, Sequences, FiniteSets, TLC

\* ------------------------------------------------------------------ bounds
\* load() invocations the holder of the root makes (on the root, on the mesh)
MaxCalls == 2
\* primitives of the mesh
NumPrims == 2
\* longest extensionsRequired array of a document
MaxReq == 2
\* scenes of a document
NumScenes == 2
\* add() calls on the registry, the one made at import included
MaxAdds == 3
\* workers of the pool (the program asks for count: 4)
PoolSize == 2
\* loads of compressed primitives that post a decode request
NumTasks == 3
\* longest byte payload of a binary container
MaxPayload == 2

\* --------------------------------------------------------- program constants
\* const SUPPORTED_VERSION = { major: 2, minor: 0 }
SupportedMajor == 2
SupportedMinor == 0
\* const MAGIC_NUMBER_BINARY_FORMAT = 0x46546C67
Magic == 1179937895

\* ---------------------------------------------------------------- strings
\* A version string is the sequence of its characters.
Digits == <<"0", "1", "2", "3", "4", "5", "6", "7", "8", "9">>

IsDigit(c) == \E i \in 1..10 : Digits[i] = c

DigitValue(c) == (CHOOSE i \in 1..10 : Digits[i] = c) - 1

\* Number(v) yields NaN for a string that is no number; NaN !== 2 and
\* NaN > 0 is false, as for this value.  The same value stands for the
\* undefined minor of a one-part version (undefined > 0 is false).
NaN == -1

\* String.prototype.split('.')
RECURSIVE Split(_)
Split(s) ==
    IF \A i \in 1..Len(s) : s[i] # "."
    THEN <<s>>
    ELSE LET k == CHOOSE i \in 1..Len(s) :
                     s[i] = "." /\ \A j \in 1..(i - 1) : s[j] # "."
         IN <<SubSeq(s, 1, k - 1)>> \o Split(SubSeq(s, k + 1, Len(s)))

RECURSIVE Decimal(_)
Decimal(s) ==
    IF s = <<>> THEN 0
    ELSE 10 * Decimal(SubSeq(s, 1, Len(s) - 1)) + DigitValue(s[Len(s)])

\* Number(v) on one part of a version: "" is 0, digits are their value
Number(s) ==
    IF \A i \in 1..Len(s) : IsDigit(s[i]) THEN Decimal(s) ELSE NaN

\* ------------------------------------------------------------- documents
V10 == <<"1", ".", "0">>
V20 == <<"2", ".", "0">>
V21 == <<"2", ".", "1">>
V30 == <<"3", ".", "0">>
V2  == <<"2">>
\* asset.minVersion absent (undefined is falsy, as is the empty string)
Absent == <<>>

Versions == {V10, V20, V21, V30, V2}
MinVersions == {Absent, V10, V20, V21}

Draco == "KHR_draco_mesh_compression"
\* an extension a host application registers, whose config has a load hook
HostExt == "EXT_host"
\* a name no module registers
Unregistered == "X_unregistered"

ExtNames == {Draco, HostExt, Unregistered}

SeqsUpTo(S, n) == UNION {[1..k -> S] : k \in 0..n}

\* the fields of a schema document the constructor and the gate read
Docs ==
    [version : Versions, minVersion : MinVersions,
     extensionsRequired : SeqsUpTo(ExtNames, MaxReq),
     bufferView : {0, 1},
     scene : -1..NumScenes]


\* --------------------------------------------------------------- records
\* Records and call frames are named by triples <<kind, n, p>>.
Buf == <<"buf", 0, 0>>
View == <<"view", 0, 0>>
Val == <<"val", 0, 0>>
Prims == 1..NumPrims
\* the primitives of the document that carry a KHR_draco_mesh_compression
\* block; the others are plain
Compressed == {1}
\* accessor 0: the primitives' indices; accessor 1: their POSITION
\* attribute, a sparse accessor that owns the Values block
Acc(a) == <<"acc", 0, a>>
MeshRec == <<"mesh", 0, 0>>
PrimRec(p) == <<"prim", 0, p>>
DracoExt(p) == <<"draco", 0, p>>
\* the decode request of primitive p's extension (a run counter only)
Decode(p) == <<"decode", 0, p>>

\* frames: one execution of a load body
RootCall(i) == <<"root", i, 0>>
HookCall(i) == <<"hook", i, 0>>
\* MeshCall(0) is the execution loadOnce memoizes; 1..MaxCalls are the
\* direct calls of mesh.load()
MeshCall(m) == <<"mesh", m, 0>>
PrimCall(m, p) == <<"prim", m, p>>
StaticCall == <<"static", 0, 0>>

CallIds ==
    {Buf, View, Val, Acc(0), Acc(1), StaticCall}
        \cup {RootCall(i) : i \in 1..MaxCalls}
        \cup {HookCall(i) : i \in 1..MaxCalls}
        \cup {MeshCall(m) : m \in 0..MaxCalls}
        \cup {PrimCall(m, p) : m \in 0..MaxCalls, p \in Prims}
        \cup {DracoExt(p) : p \in Compressed}

\* the records whose load executions are counted
RunKeys ==
    {Buf, View, Val, Acc(0), Acc(1), MeshRec}
        \cup {PrimRec(p) : p \in Prims} \cup {DracoExt(p) : p \in Compressed}
        \cup {Decode(p) : p \in Compressed}

NoErr == [name |-> "none", at |-> <<"none", 0, 0>>]
Error(name, at) == [name |-> name, at |-> at]

Idle == [pc |-> "none", sig |-> FALSE, err |-> NoErr]

\* the root, as the owner of its `scene` field, and its scenes
Root == <<"gltf", 0, 0>>
Scene(i) == <<"scene", 0, i>>
\* what reading past the ends of an array gives
Undefined == <<"undefined", 0, 0>>

\* the workers of the pool and the loads that post decode requests
Workers == 1..PoolSize
Tasks == 1..NumTasks
\* a message between the pool and a worker; the payload stands for the
\* arrays of the request it came with
Msg(taskId, kind, payload) == [taskId |-> taskId, kind |-> kind, payload |-> payload]

\* ------------------------------------------------------- binary container
\* Bytes are numbers 0..255; a buffer is the sequence of its bytes.
\* one little-endian u32, as Uint32Array reads it
U32(n) ==
    <<n % 256, (n \div 256) % 256, (n \div 65536) % 256, (n \div 16777216) % 256>>
ReadU32(b, off) ==
    b[off + 1] + 256 * b[off + 2] + 65536 * b[off + 3] + 16777216 * b[off + 4]
\* new Uint8Array(buffer, off, len) / new DataView(buffer, off, len)
Slice(b, off, len) == [i \in 1..len |-> b[off + i]]
\* chunks are padded to a multiple of four bytes
Pad(b, byte) == b \o [i \in 1..((4 - (Len(b) % 4)) % 4) |-> byte]

\* chunk types "JSON" and "BIN"
JsonChunk == 1313821514
BinChunk == 5130562

\* A schema document of the container part is what its text says: the
\* byteLength of buffers[0] (one digit) and an optional one-letter name.
\* Its text is "{", the digit, the name, "}".
Space == 32
Names == {<<>>, <<97>>, <<98>>}
Payloads == UNION {[1..k -> {0, 255}] : k \in 1..MaxPayload}
JsonDocs == [byteLength : 0..MaxPayload, name : Names]
Stringify(d) == <<123, 48 + d.byteLength>> \o d.name \o <<125>>

\* trailing white space is skipped by JSON.parse
RECURSIVE Trim(_)
Trim(b) ==
    IF b # <<>> /\ b[Len(b)] = Space THEN Trim(SubSeq(b, 1, Len(b) - 1)) ELSE b

SyntaxError == [byteLength |-> -1, name |-> <<>>]
\* JSON.parse(text): the document, or SyntaxError
JsonParse(b) ==
    LET t == Trim(b)
    IN IF /\ Len(t) \in {3, 4} /\ t[1] = 123 /\ t[Len(t)] = 125
          /\ t[2] \in 48..57
          /\ Len(t) = 4 => t[3] \in 97..122
       THEN [byteLength |-> t[2] - 48, name |-> SubSeq(t, 3, Len(t) - 1)]
       ELSE SyntaxError

\* the container layout: 12-byte header, JSON chunk, BIN chunk
Glb(d, payload) ==
    LET j == Pad(Stringify(d), Space)
        bin == Pad(payload, 0)
    IN U32(Magic) \o U32(2) \o U32(12 + 8 + Len(j) + 8 + Len(bin))
         \o U32(Len(j)) \o U32(JsonChunk) \o j
         \o U32(Len(bin)) \o U32(BinChunk) \o bin

\* bytes off+1..off+4 of b replaced by the u32 n
PutU32(b, off, n) ==
    [i \in 1..Len(b) |-> IF i \in (off + 1)..(off + 4) THEN U32(n)[i - off] ELSE b[i]]

\* ways in which a container is malformed
Damages == {"magic", "jsonOverrun", "binOverrun", "firstType"}
Damage(b, how) ==
    CASE how = "magic" -> PutU32(b, 0, Magic + 1)
      [] how = "jsonOverrun" -> PutU32(b, 12, Len(b))
      [] how = "binOverrun" -> SubSeq(b, 1, Len(b) - 4)
      [] how = "firstType" -> PutU32(b, 16, BinChunk)

NoOrigin == [kind |-> "none", doc |-> SyntaxError, payload |-> <<>>]
NoOutcome ==
    [status |-> "none", constructed |-> FALSE, doc |-> SyntaxError,
     payload |-> <<>>, err |-> "none"]
Rejected(name, constructed, d) ==
    [status |-> "rejected", constructed |-> constructed, doc |-> d,
     payload |-> <<>>, err |-> name]

\* a static load that takes the BIN chunk to begin right after the JSON
\* chunk's bytes
ReadContainerNoBinHeader(b) ==
    IF Len(b) < 16 THEN Rejected("RangeError", FALSE, SyntaxError)
    ELSE IF ReadU32(b, 0) = Magic
    THEN LET jsonLength == ReadU32(b, 12)
         IN IF 20 + jsonLength > Len(b)
            THEN Rejected("RangeError", FALSE, SyntaxError)
            ELSE LET d == JsonParse(Slice(b, 20, jsonLength))
                 IN IF d = SyntaxError
                    THEN Rejected("SyntaxError", FALSE, SyntaxError)
                    ELSE IF 20 + jsonLength + d.byteLength > Len(b)
                    THEN Rejected("RangeError", TRUE, d)
                    ELSE [status |-> "ok", constructed |-> TRUE, doc |-> d,
                          payload |-> Slice(b, 20 + jsonLength, d.byteLength),
                          err |-> "none"]
    ELSE LET d == JsonParse(b)
         IN IF d = SyntaxError
            THEN Rejected("SyntaxError", FALSE, SyntaxError)
            ELSE [status |-> "ok", constructed |-> TRUE, doc |-> d,
                  payload |-> <<>>, err |-> "none"]

\* static GLTF.load, from the response's bytes to `return gltf.load(...)`:
\* header = new Uint32Array(buffer, 0, 4); on the magic number the JSON
\* chunk is read at 5 * 4 with the length header[3] and the bytes of
\* buffers[0] at 7 * 4 + jsonLength; otherwise response.json()
ReadContainer(b) ==
    IF Len(b) < 16 THEN Rejected("RangeError", FALSE, SyntaxError)
    ELSE IF ReadU32(b, 0) = Magic
    THEN LET jsonLength == ReadU32(b, 12)
         IN IF 20 + jsonLength > Len(b)
            THEN Rejected("RangeError", FALSE, SyntaxError)
            ELSE LET d == JsonParse(Slice(b, 20, jsonLength))
                 IN IF d = SyntaxError
                    THEN Rejected("SyntaxError", FALSE, SyntaxError)
                    ELSE IF 28 + jsonLength + d.byteLength > Len(b)
                    THEN Rejected("RangeError", TRUE, d)
                    ELSE [status |-> "ok", constructed |-> TRUE, doc |-> d,
                          payload |-> Slice(b, 28 + jsonLength, d.byteLength),
                          err |-> "none"]
    ELSE LET d == JsonParse(b)
         IN IF d = SyntaxError
            THEN Rejected("SyntaxError", FALSE, SyntaxError)
            ELSE [status |-> "ok", constructed |-> TRUE, doc |-> d,
                  payload |-> <<>>, err |-> "none"]

\* an unresolved reference field holds an index, a resolved one a record
Index(n) == <<"#", n, 0>>
Unresolved(v) == v[1] = "#"

VARIABLES
    supportedExtensions,  \* GLTFExtensionsSet.#supportedExtensions
    schemas,              \* GLTFExtensionsSet.#schemas
    loadHooks,            \* the registered configs that have a load function
    gltf,                 \* "none", "constructed" or "failed": new GLTF(doc)
    doc,                  \* the document given to the constructor
    thrown,               \* what the constructor threw
    records,              \* the records the constructor has built
    refs,                 \* reference fields: owner -> index or record
    call,                 \* call frames
    runs,                 \* executions of each record's load body
    aborted,              \* the AbortSignal given to the loads has fired
    cancelScope,          \* loads with outstanding work when it fired
    captured,             \* Values.#arrayBuffer has been set
    addLog,               \* the add() calls made on the registry so far
    workers,              \* each worker: its decoder, its sentinel, its queues
    pool,                 \* WorkerHelper: ready workers, task ids, pending map
    callers,              \* the loads that use the pool
    shared,               \* the host has SharedArrayBuffer: "unprobed"
                          \* until typeof SharedArrayBuffer is first asked
    replyLog,             \* by task id: what the worker posted each time it
                          \* handled the request
    container,            \* the bytes of the response the static load reads
    origin,               \* what the bytes were made from
    outcome,              \* what the static load made of the bytes
    lookup                \* the last lookup made in the registry and its result

vars ==
    <<supportedExtensions, schemas, loadHooks, gltf, doc, thrown, records,
      refs, call, runs, aborted, cancelScope, captured, addLog,
      workers, pool, callers, shared, replyLog, container, origin, outcome,
      lookup>>

registryVars == <<supportedExtensions, schemas, loadHooks>>
graphVars == <<gltf, doc, thrown, records, refs>>
loadVars == <<call, runs, aborted, cancelScope, captured>>
\* what the construction and load steps never touch
poolVars == <<workers, pool, callers, shared, replyLog>>
containerVars == <<container, origin, outcome>>
sideVars == <<addLog, poolVars, containerVars, lookup>>

\* -------------------------------------------------------------- registry
EmptyFn == [x \in {} |-> x]

DracoFactory == "KHRDracoMeshCompressionPrimitive"

\* extensions.set('KHR_draco_mesh_compression', { schema: { Primitive } })
DracoConfig == [schema |-> [k \in {"Primitive"} |-> DracoFactory], load |-> FALSE]
HostConfig == [schema |-> EmptyFn, load |-> TRUE]

Registrations == {<<Draco, DracoConfig>>, <<HostExt, HostConfig>>}

\* the property kinds and factories of the configs given to add()
Kinds == {"Primitive", "Material"}
Factories == {DracoFactory, "OtherFactory"}
PartialFns(S, T) == UNION {[D -> T] : D \in SUBSET S}
AddCalls ==
    {<<name, [schema |-> sch, load |-> FALSE]>> :
        name \in {Draco, HostExt}, sch \in PartialFns(Kinds, Factories)}

\* an add that starts the property's table afresh:
\* this.#schemas[property] = { [name]: factory }
AddSchemasFresh(sch, name, schema) ==
    [p \in DOMAIN sch \cup DOMAIN schema |->
        IF p \in DOMAIN schema THEN (name :> schema[p]) ELSE sch[p]]

\* this.#schemas[property] ??= {}; this.#schemas[property][name] = factory
AddSchemas(sch, name, schema) ==
    [p \in DOMAIN sch \cup DOMAIN schema |->
        IF p \in DOMAIN schema
        THEN (name :> schema[p]) @@ (IF p \in DOMAIN sch THEN sch[p] ELSE EmptyFn)
        ELSE sch[p]]

\* getFactory(property, name): this.#schemas[property]?.[name]
getFactory(property, name) ==
    IF property \in DOMAIN schemas /\ name \in DOMAIN schemas[property]
    THEN schemas[property][name]
    ELSE "undefined"

\* isSupported(name); ensureSupport asks it as extensions.has(ext)
isSupported(name) == name \in supportedExtensions

\* an add that registers the factories and leaves the set of names alone
addSchemasOnly(name, config) ==
    /\ supportedExtensions' = supportedExtensions
    /\ schemas' = AddSchemas(schemas, name, config.schema)
    /\ loadHooks' = (loadHooks \ {name}) \cup (IF config.load THEN {name} ELSE {})

add(name, config) ==
    /\ supportedExtensions' = supportedExtensions \cup {name}
    /\ schemas' = AddSchemas(schemas, name, config.schema)
    /\ loadHooks' = (loadHooks \ {name}) \cup (IF config.load THEN {name} ELSE {})

\* -------------------------------------------------------------- the gate
\* a loop that looks at the first required name only
FirstUnsupportedHeadOnly(req) ==
    IF Len(req) >= 1 /\ ~isSupported(req[1]) THEN 1 ELSE 0

\* the first name of extensionsRequired that is not registered, or 0
FirstUnsupported(req) ==
    LET bad == {i \in 1..Len(req) : ~isSupported(req[i])}
    IN IF bad = {} THEN 0 ELSE CHOOSE i \in bad : \A j \in bad : i <= j

\* a gate that reads major and minor from asset.version alone
ensureSupportVersionOnly(d) ==
    LET parts == Split(d.version)
        major == Number(parts[1])
        minor == IF Len(parts) >= 2 THEN Number(parts[2]) ELSE NaN
        k     == FirstUnsupported(d.extensionsRequired)
    IN IF major # SupportedMajor \/ (d.minVersion # Absent /\ minor > SupportedMinor)
       THEN Error("Unsupported glTF version", <<"version", 0, 0>>)
       ELSE IF k # 0
            THEN Error("Unsupported glTF extension", <<d.extensionsRequired[k], 0, 0>>)
            ELSE NoErr

\* ensureSupport(glTF): the error it throws, NoErr if it returns
ensureSupport(d) ==
    LET given == d.minVersion # Absent
        parts == Split(IF given THEN d.minVersion ELSE d.version)
        major == Number(parts[1])
        minor == IF Len(parts) >= 2 THEN Number(parts[2]) ELSE NaN
        k     == FirstUnsupported(d.extensionsRequired)
    IN IF major # SupportedMajor \/ (given /\ minor > SupportedMinor)
       THEN Error("Unsupported glTF version", <<"version", 0, 0>>)
       ELSE IF k # 0
            THEN Error("Unsupported glTF extension", <<d.extensionsRequired[k], 0, 0>>)
            ELSE NoErr


\* ------------------------------------------------------- the constructor
\* the records new GLTF(doc) builds: one buffer, one bufferView, two
\* accessors (one sparse, with a Values block), one mesh of NumPrims
\* primitives; a primitive's KHR_draco_mesh_compression block becomes a
\* typed record when a factory is registered for (Primitive, name)
Built ==
    {Buf, View, Acc(0), Acc(1), Val, MeshRec}
        \cup {PrimRec(p) : p \in Prims}
        \cup {DracoExt(p) : p \in
                {q \in Compressed : getFactory("Primitive", Draco) = DracoFactory}}

\* the fields of referenceFields of type 'collection' (bufferViews), as the
\* record constructors leave them: this.bufferView = bufferView
\* and the root's `scene`, which the constructor sets itself:
\* this.scene = this.scenes[scene]
RefFields(d) ==
    [o \in {Val} \cup (Built \cap {DracoExt(p) : p \in Compressed}) |-> Index(d.bufferView)]
        @@ (Root :> IF d.scene \in 0..(NumScenes - 1) THEN Scene(d.scene) ELSE Undefined)

\* dereference: an index into bufferViews becomes the BufferView
dereference(r) ==
    [o \in DOMAIN r |-> IF Unresolved(r[o]) /\ r[o][2] = 0 THEN View ELSE r[o]]

Dereferenced == \A o \in DOMAIN refs : ~Unresolved(refs[o])

\* a constructor that returns without this.dereference(this)
GLTFConstructorNoDereference(d) ==
    LET e == ensureSupport(d)
    IN /\ doc' = d
       /\ IF e # NoErr
          THEN /\ gltf' = "failed"
               /\ thrown' = e
               /\ UNCHANGED <<records, refs>>
          ELSE /\ records' = Built
               /\ refs' = RefFields(d)
               /\ gltf' = "constructed"
               /\ thrown' = NoErr

\* a constructor that builds the collections before it asks the gate
GLTFConstructorLateGate(d) ==
    LET e == ensureSupport(d)
        r == dereference(RefFields(d))
        ok == \A o \in DOMAIN r : ~Unresolved(r[o])
    IN /\ doc' = d
       /\ records' = Built
       /\ refs' = IF e # NoErr THEN RefFields(d) ELSE r
       /\ gltf' = IF e = NoErr /\ ok THEN "constructed" ELSE "failed"
       /\ thrown' = IF e # NoErr THEN e
                    ELSE IF ok THEN NoErr
                         ELSE Error("ReferenceError", <<"bufferView", 0, 0>>)

\* new GLTF(doc): ensureSupport first, then the collections, then
\* this.dereference(this)
GLTFConstructor(d) ==
    LET e == ensureSupport(d)
        r == dereference(RefFields(d))
        ok == \A o \in DOMAIN r : ~Unresolved(r[o])
    IN /\ doc' = d
       /\ IF e # NoErr
          THEN /\ gltf' = "failed"
               /\ thrown' = e
               /\ UNCHANGED <<records, refs>>
          ELSE /\ records' = Built
               /\ refs' = r
               /\ gltf' = IF ok THEN "constructed" ELSE "failed"
               /\ thrown' = IF ok THEN NoErr
                            ELSE Error("ReferenceError", <<"bufferView", 0, 0>>)

\* ------------------------------------------------------------ call frames
\* The operators below act on s = [c |-> call frames, n |-> run counters],
\* so that one synchronous run of nested calls is one value.
Running(f) == f.pc \notin {"none", "ok", "rejected"}

Min(S) == CHOOSE x \in S : \A y \in S : x <= y

Range(q) == {q[i] : i \in DOMAIN q}

\* a root load that does not wait for the extensions' load hooks
AwaitsNoHooks(c, id) ==
    LET k == id[1]
        pc == c[id].pc
    IN CASE k = "root" /\ pc = "items" ->
                <<Buf, View, Acc(0), Acc(1), MeshCall(0)>>
         [] k = "val" /\ pc = "buffer" -> <<Buf>>
         [] k = "acc" /\ pc = "sparse" -> <<Val>>
         [] k = "mesh" /\ pc = "prims" -> [p \in Prims |-> PrimCall(id[2], p)]
         [] k = "prim" /\ pc = "ext" -> <<DracoExt(id[3])>>
         [] k = "draco" /\ pc = "deps" -> <<Buf, Acc(0), Acc(1)>>
         [] k = "static" /\ pc = "root" -> <<RootCall(1)>>
         [] OTHER -> <<>>

\* the promises frame id awaits at its pc, in the order of the array given
\* to Promise.all
Awaits(c, id) ==
    LET k == id[1]
        pc == c[id].pc
    IN CASE k = "root" /\ pc = "ext" ->
                IF c[HookCall(id[2])].pc # "none" THEN <<HookCall(id[2])>> ELSE <<>>
         [] k = "root" /\ pc = "items" ->
                <<Buf, View, Acc(0), Acc(1), MeshCall(0)>>
         [] k = "val" /\ pc = "buffer" -> <<Buf>>
         [] k = "acc" /\ pc = "sparse" -> <<Val>>
         [] k = "mesh" /\ pc = "prims" -> [p \in Prims |-> PrimCall(id[2], p)]
         [] k = "prim" /\ pc = "ext" -> <<DracoExt(id[3])>>
         [] k = "draco" /\ pc = "deps" -> <<Buf, Acc(0), Acc(1)>>
         [] k = "static" /\ pc = "root" -> <<RootCall(1)>>
         [] OTHER -> <<>>

\* Promise.all rejects with the first rejection: of promises already
\* rejected when it subscribes, the first in array order
Doom(c, kids) ==
    LET bad == {i \in DOMAIN kids : c[kids[i]].pc = "rejected"}
    IN IF bad = {} THEN NoErr ELSE c[kids[Min(bad)]].err

AllOk(c, id) ==
    /\ c[id].err = NoErr
    /\ \A k \in Range(Awaits(c, id)) : c[k].pc = "ok"

\* the body starts: the frame exists and the execution is counted
Enter(s, id, key, sig) ==
    [c |-> [s.c EXCEPT ![id] = [pc |-> "run", sig |-> sig, err |-> NoErr]],
     n |-> [s.n EXCEPT ![key] = @ + 1]]

\* the body reaches an await
Suspend(s, id, pc) ==
    LET c1 == [s.c EXCEPT ![id].pc = pc]
    IN [s EXCEPT !.c = [c1 EXCEPT ![id].err = Doom(c1, Awaits(c1, id))]]

Fulfil(s, id) == [s EXCEPT !.c[id].pc = "ok"]

\* the frame's promise rejects; every Promise.all still pending on it
\* rejects with its error
RejectWith(c, id, e) ==
    [f \in DOMAIN c |->
        IF f = id THEN [c[f] EXCEPT !.pc = "rejected", !.err = e]
        ELSE IF Running(c[f]) /\ c[f].err = NoErr /\ id \in Range(Awaits(c, f))
             THEN [c[f] EXCEPT !.err = e]
             ELSE c[f]]

\* GLTFProperty.loadOnce: the pending promise is memoized; the body runs on
\* the first call only
\* (loaded is the state the body leaves when it is run from s)
loadOnce(s, id, loaded) ==
    IF s.c[id].pc = "none" THEN loaded ELSE s


\* ------------------------------------------------------------ load bodies
\* Buffer.load(signal): fetch(uri, signal), then the bytes are populated
BufferLoad(s, sig) == Suspend(Enter(s, Buf, Buf, sig), Buf, "fetch")

\* GLTFProperty.load, the base-class hook: a no-op, fulfilled on return
BaseLoad(s, id, sig) == Fulfil(Enter(s, id, id, sig), id)

ViewLoad(s, sig) == BaseLoad(s, View, sig)

\* a Values.load that awaits bufferView.buffer.load(signal)
ValuesLoadDirect(s, sig) ==
    Suspend(BufferLoad(Enter(s, Val, Val, sig), sig), Val, "buffer")

\* Values.load(signal), up to its first await:
\* await bufferView.buffer.loadOnce(signal)
ValuesLoad(s, sig) ==
    LET s1 == Enter(s, Val, Val, sig)
    IN Suspend(loadOnce(s1, Buf, BufferLoad(s1, sig)), Val, "buffer")

\* Accessor.load(signal): a sparse accessor waits for its Values block
AccessorLoad(s, a, sig) ==
    LET s1 == Enter(s, Acc(a), Acc(a), sig)
    IN IF a = 1
       THEN Suspend(loadOnce(s1, Val, ValuesLoad(s1, sig)), Acc(a), "sparse")
       ELSE BaseLoad(s, Acc(a), sig)

\* KHRDracoMeshCompressionPrimitive.load(abortCtl), up to its first await:
\* await workerHelper.init()
DracoLoad(s, p, sig) ==
    Suspend(Enter(s, DracoExt(p), DracoExt(p), sig), DracoExt(p), "init")

\* Primitive.load(abortCtl): the base-class load, which loads the typed
\* extension records attached to the primitive
PrimitiveLoad(s, m, p, sig) ==
    LET s1 == Enter(s, PrimCall(m, p), PrimRec(p), sig)
    IN IF DracoExt(p) \in records
       THEN Suspend(loadOnce(s1, DracoExt(p), DracoLoad(s1, p, sig)),
                    PrimCall(m, p), "ext")
       ELSE Fulfil(s1, PrimCall(m, p))

\* this.primitives.map(primitive => primitive.load()): no argument is given
RECURSIVE MeshPrimitives(_, _, _)
MeshPrimitives(s, m, p) ==
    IF p > NumPrims THEN s
    ELSE MeshPrimitives(PrimitiveLoad(s, m, p, FALSE), m, p + 1)

\* Mesh.load(): declared without a parameter, sig is what the caller passed
MeshLoad(s, m, sig) ==
    Suspend(MeshPrimitives(Enter(s, MeshCall(m), MeshRec, sig), m, 1),
            MeshCall(m), "prims")

\* a GLTF.load that calls item.load(abortCtl) on the buffers
GLTFLoadItemsDirect(s, i) ==
    LET sig == s.c[RootCall(i)].sig
        s1 == BufferLoad(s, sig)
        s2 == loadOnce(s1, View, ViewLoad(s1, sig))
        s3 == loadOnce(s2, Acc(0), AccessorLoad(s2, 0, sig))
        s4 == loadOnce(s3, Acc(1), AccessorLoad(s3, 1, sig))
        s5 == loadOnce(s4, MeshCall(0), MeshLoad(s4, 0, sig))
    IN Suspend(s5, RootCall(i), "items")

\* GLTF.load, after the extensions' load hooks: item.loadOnce(abortCtl) for
\* every item of every collection, in the order of `collections`
GLTFLoadItems(s, i) ==
    LET sig == s.c[RootCall(i)].sig
        s1 == loadOnce(s, Buf, BufferLoad(s, sig))
        s2 == loadOnce(s1, View, ViewLoad(s1, sig))
        s3 == loadOnce(s2, Acc(0), AccessorLoad(s2, 0, sig))
        s4 == loadOnce(s3, Acc(1), AccessorLoad(s3, 1, sig))
        s5 == loadOnce(s4, MeshCall(0), MeshLoad(s4, 0, sig))
    IN Suspend(s5, RootCall(i), "items")

\* GLTF.load(abortCtl), up to its first await: ext.load?.(abortCtl) for
\* every registered extension
GLTFLoad(c, i, sig) ==
    LET c1 == [c EXCEPT
                 ![RootCall(i)] = [pc |-> "ext", sig |-> sig, err |-> NoErr],
                 ![HookCall(i)] = IF HostExt \in loadHooks
                                  THEN [pc |-> "run", sig |-> sig, err |-> NoErr]
                                  ELSE @]
    IN c1

\* an extension's load that starts the loads of the buffer and the
\* accessors and posts its decode request without awaiting them
DracoDepsNoAwait(s, p) ==
    LET sig == s.c[DracoExt(p)].sig
        s1 == loadOnce(s, Buf, BufferLoad(s, sig))
        s2 == loadOnce(s1, Acc(0), AccessorLoad(s1, 0, sig))
        s3 == loadOnce(s2, Acc(1), AccessorLoad(s2, 1, sig))
    IN Suspend([s3 EXCEPT !.n[Decode(p)] = @ + 1], DracoExt(p), "decode")

\* the extension's load, after workerHelper.init(): Promise.all of
\* buffer.loadOnce, indices.loadOnce and every attribute's loadOnce
DracoDeps(s, p) ==
    LET sig == s.c[DracoExt(p)].sig
        s1 == loadOnce(s, Buf, BufferLoad(s, sig))
        s2 == loadOnce(s1, Acc(0), AccessorLoad(s1, 0, sig))
        s3 == loadOnce(s2, Acc(1), AccessorLoad(s2, 1, sig))
    IN Suspend(s3, DracoExt(p), "deps")

\* the extension's load, after its Promise.all: the arrays are read and
\* workerHelper.postMessage({ type: 'decode', ... }, abortCtl) is awaited
DracoPost(s, p) ==
    Suspend([s EXCEPT !.n[Decode(p)] = @ + 1], DracoExt(p), "decode")


\* ------------------------------------------------------------------ Init
\* The registry after the module imports: gltf.js imports
\* extensions/KHR_draco_mesh_compression.js, which registers itself.
NoDoc ==
    [version |-> <<>>, minVersion |-> Absent, extensionsRequired |-> <<>>,
     bufferView |-> 0, scene |-> 0]

Init ==
    /\ supportedExtensions = {Draco}
    /\ schemas = AddSchemas(EmptyFn, Draco, DracoConfig.schema)
    /\ loadHooks = {}
    /\ gltf = "none"
    /\ doc = NoDoc
    /\ thrown = NoErr
    /\ records = {}
    /\ refs = EmptyFn
    /\ call = [id \in CallIds |-> Idle]
    /\ runs = [k \in RunKeys |-> 0]
    /\ aborted = FALSE
    /\ cancelScope = {}
    /\ captured = FALSE
    /\ addLog = <<<<Draco, DracoConfig>>>>
    /\ workers = [w \in Workers |-> [draco |-> FALSE, sentinel |-> FALSE,
                                     inbox |-> <<>>, outbox |-> <<>>]]
    /\ pool = [ready |-> {}, busy |-> [w \in Workers |-> 0], queue |-> <<>>,
               nextId |-> 1, pending |-> [r \in Tasks |-> 0]]
    /\ callers = [r \in Tasks |-> [pc |-> "none", got |-> 0, copied |-> {}]]
    /\ shared = "unprobed"
    /\ replyLog = [t \in Tasks |-> <<>>]
    /\ container = <<>>
    /\ origin = NoOrigin
    /\ outcome = NoOutcome
    /\ lookup = [op |-> "none", args |-> <<>>, result |-> "undefined"]

S0 == [c |-> call, n |-> runs]

Commit(s) == call' = s.c /\ runs' = s.n

\* the caller holds the constructed root: it built it itself, or the
\* static load has returned it
HoldsRoot == gltf = "constructed" /\ call[StaticCall].pc \in {"none", "ok"}

\* the documents of the load specification
LoadDocs ==
    {d \in Docs :
        /\ d.version \in {V10, V20} /\ d.minVersion = Absent
        /\ d.extensionsRequired \in {<<>>, <<Unregistered>>, <<Draco, HostExt>>}
        /\ d.scene = 0}

\* load() invocations made so far by the holder of the root
UserCalls ==
    Cardinality({i \in 1..MaxCalls : call[RootCall(i)].pc # "none"})
        + Cardinality({m \in 1..MaxCalls : call[MeshCall(m)].pc # "none"})

\* pcs at which a frame waits for the event loop, not for a promise of
\* the graph
EventPcs == {"fetch", "init", "decode", "run", "body", "json"}

\* a continuation of frame id is in the microtask queue
Ready(id) ==
    /\ Running(call[id])
    /\ call[id].pc \notin EventPcs
    /\ call[id].err # NoErr \/ AllOk(call, id)

\* the event loop takes its next task only when the microtask queue is empty
Quiet == \A id \in CallIds : ~Ready(id)

\* --------------------------------------------------------------- actions
\* extensions.add(name, config), by a module or the host application
Register ==
    /\ gltf = "none" /\ call[StaticCall].pc = "none"
    /\ \E r \in Registrations : add(r[1], r[2])
    /\ UNCHANGED <<sideVars, graphVars, loadVars>>

\* the same, at any time
RegisterAny ==
    /\ \E r \in Registrations : add(r[1], r[2])
    /\ UNCHANGED <<sideVars, graphVars, loadVars>>

\* new GLTF(doc)
Construct ==
    /\ gltf = "none" /\ call[StaticCall].pc = "none"
    /\ \E d \in LoadDocs : GLTFConstructor(d)
    /\ UNCHANGED <<sideVars, registryVars, loadVars>>

ConstructAny ==
    /\ gltf = "none" /\ call[StaticCall].pc = "none"
    /\ \E d \in Docs : GLTFConstructor(d)
    /\ UNCHANGED <<sideVars, registryVars, loadVars>>

\* gltf.load(signal), called by the holder of the root
CallLoad ==
    /\ HoldsRoot
    /\ UserCalls < MaxCalls
    /\ \E i \in 1..MaxCalls :
        /\ call[RootCall(i)].pc = "none"
        /\ i > 1 => call[RootCall(i - 1)].pc # "none"
        /\ call' = GLTFLoad(call, i, TRUE)
    /\ UNCHANGED <<sideVars, registryVars, graphVars, runs, aborted, cancelScope, captured>>

\* an extension's load hook settles
HookOk ==
    /\ Quiet
    /\ \E i \in 1..MaxCalls :
        /\ call[HookCall(i)].pc = "run"
        /\ call' = [call EXCEPT ![HookCall(i)].pc = "ok"]
    /\ UNCHANGED <<sideVars, registryVars, graphVars, runs, aborted, cancelScope, captured>>

HookFail ==
    /\ Quiet
    /\ \E i \in 1..MaxCalls :
        /\ call[HookCall(i)].pc = "run"
        /\ call' = RejectWith(call, HookCall(i),
                              Error("ExtensionLoadError", HookCall(i)))
    /\ UNCHANGED <<sideVars, registryVars, graphVars, runs, aborted, cancelScope, captured>>

\* GLTF.load resumes after await Promise.all(extensions' loads)
RootAfterExt ==
    /\ \E i \in 1..MaxCalls :
        /\ call[RootCall(i)].pc = "ext"
        /\ AllOk(call, RootCall(i))
        /\ Commit(GLTFLoadItems(S0, i))
    /\ UNCHANGED <<sideVars, registryVars, graphVars, aborted, cancelScope, captured>>

\* GLTF.load resumes after the collections: await super.load(abortCtl)
RootAfterItems ==
    /\ \E i \in 1..MaxCalls :
        /\ call[RootCall(i)].pc = "items"
        /\ AllOk(call, RootCall(i))
        /\ call' = [call EXCEPT ![RootCall(i)].pc = "super"]
    /\ UNCHANGED <<sideVars, registryVars, graphVars, runs, aborted, cancelScope, captured>>

\* return this
RootReturn ==
    /\ \E i \in 1..MaxCalls :
        /\ call[RootCall(i)].pc = "super"
        /\ call' = [call EXCEPT ![RootCall(i)].pc = "ok"]
    /\ UNCHANGED <<sideVars, registryVars, graphVars, runs, aborted, cancelScope, captured>>

\* mesh.load(), called by the holder of the root
CallMeshLoad ==
    /\ HoldsRoot
    /\ UserCalls < MaxCalls
    /\ \E m \in 1..MaxCalls :
        /\ call[MeshCall(m)].pc = "none"
        /\ m > 1 => call[MeshCall(m - 1)].pc # "none"
        /\ Commit(MeshLoad(S0, m, FALSE))
    /\ UNCHANGED <<sideVars, registryVars, graphVars, aborted, cancelScope, captured>>

\* a Mesh.load that returns with the first primitive to load (Promise.race)
MeshReturnFirst ==
    /\ \E m \in 0..MaxCalls :
        /\ call[MeshCall(m)].pc = "prims"
        /\ call[MeshCall(m)].err = NoErr
        /\ \E p \in Prims : call[PrimCall(m, p)].pc = "ok"
        /\ call' = [call EXCEPT ![MeshCall(m)].pc = "ok"]
    /\ UNCHANGED <<sideVars, registryVars, graphVars, runs, aborted, cancelScope, captured>>

\* a Mesh.load that waits for every primitive to settle and returns
\* (Promise.allSettled)
MeshReturnSettled ==
    /\ \E m \in 0..MaxCalls :
        /\ call[MeshCall(m)].pc = "prims"
        /\ \A p \in Prims : call[PrimCall(m, p)].pc \in {"ok", "rejected"}
        /\ call' = [call EXCEPT ![MeshCall(m)].pc = "ok"]
    /\ UNCHANGED <<sideVars, registryVars, graphVars, runs, aborted, cancelScope, captured>>

\* Mesh.load resumes after await Promise.all(primitives' loads)
MeshReturn ==
    /\ \E m \in 0..MaxCalls :
        /\ call[MeshCall(m)].pc = "prims"
        /\ AllOk(call, MeshCall(m))
        /\ call' = [call EXCEPT ![MeshCall(m)].pc = "ok"]
    /\ UNCHANGED <<sideVars, registryVars, graphVars, runs, aborted, cancelScope, captured>>

PrimReturn ==
    /\ \E m \in 0..MaxCalls, p \in Prims :
        /\ call[PrimCall(m, p)].pc = "ext"
        /\ AllOk(call, PrimCall(m, p))
        /\ call' = [call EXCEPT ![PrimCall(m, p)].pc = "ok"]
    /\ UNCHANGED <<sideVars, registryVars, graphVars, runs, aborted, cancelScope, captured>>

AccessorReturn ==
    /\ call[Acc(1)].pc = "sparse"
    /\ AllOk(call, Acc(1))
    /\ call' = [call EXCEPT ![Acc(1)].pc = "ok"]
    /\ UNCHANGED <<sideVars, registryVars, graphVars, runs, aborted, cancelScope, captured>>

\* Values.load resumes: this.#arrayBuffer = bufferView.buffer.getArrayBuffer();
\* await super.load(signal)
ValuesAfterBuffer ==
    /\ call[Val].pc = "buffer"
    /\ AllOk(call, Val)
    /\ captured' = TRUE
    /\ call' = [call EXCEPT ![Val].pc = "super"]
    /\ UNCHANGED <<sideVars, registryVars, graphVars, runs, aborted, cancelScope>>

ValuesReturn ==
    /\ call[Val].pc = "super"
    /\ call' = [call EXCEPT ![Val].pc = "ok"]
    /\ UNCHANGED <<sideVars, registryVars, graphVars, runs, aborted, cancelScope, captured>>

\* a frame's await throws: its promise rejects with the first rejection
Throw ==
    /\ \E id \in CallIds :
        /\ Running(call[id])
        /\ call[id].err # NoErr
        /\ call' = RejectWith(call, id, call[id].err)
    /\ UNCHANGED <<sideVars, registryVars, graphVars, runs, aborted, cancelScope, captured>>

\* the fetch of a frame observes the signal it was given
Cancelled(id) == call[id].sig /\ aborted

FetchOk ==
    /\ Quiet
    /\ call[Buf].pc = "fetch"
    /\ ~Cancelled(Buf)
    /\ call' = [call EXCEPT ![Buf].pc = "ok"]
    /\ UNCHANGED <<sideVars, registryVars, graphVars, runs, aborted, cancelScope, captured>>

FetchFail ==
    /\ Quiet
    /\ call[Buf].pc = "fetch"
    /\ ~Cancelled(Buf)
    /\ call' = RejectWith(call, Buf, Error("NetworkError", Buf))
    /\ UNCHANGED <<sideVars, registryVars, graphVars, runs, aborted, cancelScope, captured>>

FetchAbort ==
    /\ call[Buf].pc = "fetch"
    /\ Cancelled(Buf)
    /\ call' = RejectWith(call, Buf, Error("AbortError", Buf))
    /\ UNCHANGED <<sideVars, registryVars, graphVars, runs, aborted, cancelScope, captured>>

\* the extension's load resumes after await workerHelper.init()
DracoAfterInit ==
    /\ Quiet
    /\ \E p \in Compressed :
        /\ call[DracoExt(p)].pc = "init"
        /\ Commit(DracoDeps(S0, p))
    /\ UNCHANGED <<sideVars, registryVars, graphVars, aborted, cancelScope, captured>>

DracoDecode ==
    /\ \E p \in Compressed :
        /\ call[DracoExt(p)].pc = "deps"
        /\ AllOk(call, DracoExt(p))
        /\ Commit(DracoPost(S0, p))
    /\ UNCHANGED <<sideVars, registryVars, graphVars, aborted, cancelScope, captured>>

\* the worker's reply: the results are copied and load returns
DecodeOk ==
    /\ Quiet
    /\ \E p \in Compressed :
        /\ call[DracoExt(p)].pc = "decode"
        /\ ~Cancelled(DracoExt(p))
        /\ call' = [call EXCEPT ![DracoExt(p)].pc = "ok"]
    /\ UNCHANGED <<sideVars, registryVars, graphVars, runs, aborted, cancelScope, captured>>

DecodeFail ==
    /\ Quiet
    /\ \E p \in Compressed :
        /\ call[DracoExt(p)].pc = "decode"
        /\ ~Cancelled(DracoExt(p))
        /\ call' = RejectWith(call, DracoExt(p), Error("DecodeError", DracoExt(p)))
    /\ UNCHANGED <<sideVars, registryVars, graphVars, runs, aborted, cancelScope, captured>>

DecodeAbort ==
    /\ \E p \in Compressed :
        /\ call[DracoExt(p)].pc = "decode"
        /\ Cancelled(DracoExt(p))
        /\ call' = RejectWith(call, DracoExt(p), Error("AbortError", DracoExt(p)))
    /\ UNCHANGED <<sideVars, registryVars, graphVars, runs, aborted, cancelScope, captured>>

\* extension.loadOnce(signal), called on a primitive's extension record by
\* the holder of the root
CallExtensionLoad ==
    /\ HoldsRoot
    /\ \E p \in Compressed :
        /\ DracoExt(p) \in records
        /\ call[DracoExt(p)].pc = "none"
        /\ Commit(DracoLoad(S0, p, TRUE))
    /\ UNCHANGED <<sideVars, registryVars, graphVars, aborted, cancelScope, captured>>

\* --------------------------------------------------------- cancellation
ItemFrames ==
    {Buf, View, Val, Acc(0), Acc(1), MeshCall(0)}
        \cup {PrimCall(0, p) : p \in Prims} \cup {DracoExt(p) : p \in Compressed}

\* a fetch or a decode has not resolved yet
Outstanding ==
    \/ call[Buf].pc = "fetch"
    \/ \E p \in Compressed : call[DracoExt(p)].pc = "decode"

\* the root loads that wait for outstanding work and have seen no failure
RootsWaiting ==
    {RootCall(i) : i \in
        {j \in 1..MaxCalls :
            /\ call[RootCall(j)].pc = "items"
            /\ call[RootCall(j)].err = NoErr
            /\ \A f \in ItemFrames : call[f].err = NoErr
            /\ Outstanding}}

\* controller.abort()
Abort ==
    /\ ~aborted
    /\ aborted' = TRUE
    /\ cancelScope' =
          RootsWaiting
            \cup (IF \/ call[StaticCall].pc \in {"fetch", "body", "json"}
                     \/ (call[StaticCall].pc = "root" /\ RootCall(1) \in RootsWaiting)
                  THEN {StaticCall} ELSE {})
    /\ UNCHANGED <<sideVars, registryVars, graphVars, call, runs, captured>>


\* ------------------------------------------------------- static GLTF.load
\* GLTF.load(uri, abortCtl), up to await fetch(uri, abortCtl)
CallStaticLoad ==
    /\ gltf = "none" /\ call[StaticCall].pc = "none"
    /\ call' = [call EXCEPT ![StaticCall] = [pc |-> "fetch", sig |-> TRUE, err |-> NoErr]]
    /\ UNCHANGED <<sideVars, registryVars, graphVars, runs, aborted, cancelScope, captured>>

\* the response arrives: await response.clone().arrayBuffer()
StaticFetched ==
    /\ Quiet
    /\ call[StaticCall].pc = "fetch" /\ ~Cancelled(StaticCall)
    /\ call' = [call EXCEPT ![StaticCall].pc = "body"]
    /\ UNCHANGED <<sideVars, registryVars, graphVars, runs, aborted, cancelScope, captured>>

StaticFetchFail ==
    /\ Quiet
    /\ call[StaticCall].pc = "fetch" /\ ~Cancelled(StaticCall)
    /\ call' = RejectWith(call, StaticCall, Error("NetworkError", StaticCall))
    /\ UNCHANGED <<sideVars, registryVars, graphVars, runs, aborted, cancelScope, captured>>

StaticAbort ==
    /\ call[StaticCall].pc \in {"fetch", "body", "json"} /\ Cancelled(StaticCall)
    /\ call' = RejectWith(call, StaticCall, Error("AbortError", StaticCall))
    /\ UNCHANGED <<sideVars, registryVars, graphVars, runs, aborted, cancelScope, captured>>

\* gltf = new this(json, uri); return gltf.load(abortCtl)
StaticConstruct ==
    /\ \E d \in LoadDocs : GLTFConstructor(d)
    /\ call' = IF gltf' = "constructed"
               THEN [GLTFLoad(call, 1, call[StaticCall].sig) EXCEPT ![StaticCall].pc = "root"]
               ELSE RejectWith(call, StaticCall, thrown')

\* the container's magic number matches: the JSON chunk is parsed at once
StaticBinary ==
    /\ Quiet
    /\ call[StaticCall].pc = "body" /\ ~Cancelled(StaticCall)
    /\ StaticConstruct
    /\ UNCHANGED <<sideVars, registryVars, runs, aborted, cancelScope, captured>>

\* otherwise: await response.json()
StaticText ==
    /\ Quiet
    /\ call[StaticCall].pc = "body" /\ ~Cancelled(StaticCall)
    /\ call' = [call EXCEPT ![StaticCall].pc = "json"]
    /\ UNCHANGED <<sideVars, registryVars, graphVars, runs, aborted, cancelScope, captured>>

StaticJson ==
    /\ Quiet
    /\ call[StaticCall].pc = "json" /\ ~Cancelled(StaticCall)
    /\ StaticConstruct
    /\ UNCHANGED <<sideVars, registryVars, runs, aborted, cancelScope, captured>>

\* the promise of the static load settles as the root's load does
StaticReturn ==
    /\ call[StaticCall].pc = "root"
    /\ AllOk(call, StaticCall)
    /\ call' = [call EXCEPT ![StaticCall].pc = "ok"]
    /\ UNCHANGED <<sideVars, registryVars, graphVars, runs, aborted, cancelScope, captured>>

\* --------------------------------------------------------- specifications
Next ==
    \/ Register
    \/ Construct
    \/ CallLoad
    \/ HookOk
    \/ HookFail
    \/ RootAfterExt
    \/ RootAfterItems
    \/ RootReturn
    \/ CallMeshLoad
    \/ CallExtensionLoad
    \/ MeshReturn
    \/ PrimReturn
    \/ AccessorReturn
    \/ ValuesAfterBuffer
    \/ ValuesReturn
    \/ Throw
    \/ FetchOk
    \/ FetchFail
    \/ FetchAbort
    \/ DracoAfterInit
    \/ DracoDecode
    \/ DecodeOk
    \/ DecodeFail
    \/ DecodeAbort
    \/ Abort
    \/ CallStaticLoad
    \/ StaticFetched
    \/ StaticFetchFail
    \/ StaticAbort
    \/ StaticBinary
    \/ StaticText
    \/ StaticJson
    \/ StaticReturn

Spec == Init /\ [][Next]_vars

\* the gate alone, over every document
NextGate ==
    \/ RegisterAny
    \/ ConstructAny

SpecGate == Init /\ [][NextGate]_vars

\* ---------------------------------------------------- the registry alone
\* extensions.add(name, config), called by any module
AddCall ==
    /\ Len(addLog) < MaxAdds
    /\ \E r \in AddCalls :
        /\ add(r[1], r[2])
        /\ addLog' = Append(addLog, r)
    /\ UNCHANGED <<graphVars, loadVars, poolVars, containerVars, lookup>>

\* extensions.getFactory(property, name), by any caller
GetFactoryCall ==
    /\ \E kind \in Kinds, name \in ExtNames :
        lookup' = [op |-> "getFactory", args |-> <<kind, name>>,
                   result |-> getFactory(kind, name)]
    /\ UNCHANGED <<registryVars, graphVars, loadVars, addLog, poolVars, containerVars>>

\* extensions.isSupported(name), by any caller
IsSupportedCall ==
    /\ \E name \in ExtNames :
        lookup' = [op |-> "isSupported", args |-> <<name>>,
                   result |-> IF isSupported(name) THEN "true" ELSE "false"]
    /\ UNCHANGED <<registryVars, graphVars, loadVars, addLog, poolVars, containerVars>>

NextRegistry ==
    \/ AddCall
    \/ GetFactoryCall
    \/ IsSupportedCall

SpecRegistry == Init /\ [][NextRegistry]_vars

\* ------------------------------------------------ the binary container
\* a document whose buffers[0] has the payload's length, and the payload,
\* are packed into a container
Encode ==
    /\ container = <<>>
    /\ \E d \in JsonDocs, payload \in Payloads :
        /\ d.byteLength = Len(payload)
        /\ container' = Glb(d, payload)
        /\ origin' = [kind |-> "container", doc |-> d, payload |-> payload]
    /\ UNCHANGED <<registryVars, graphVars, loadVars, addLog, lookup, poolVars, outcome>>

\* the same, and the container is damaged on its way
EncodeMalformed ==
    /\ container = <<>>
    /\ \E d \in JsonDocs, payload \in Payloads, how \in Damages :
        /\ d.byteLength = Len(payload)
        /\ container' = Damage(Glb(d, payload), how)
        /\ origin' = [kind |-> how, doc |-> d, payload |-> payload]
    /\ UNCHANGED <<registryVars, graphVars, loadVars, addLog, lookup, poolVars, outcome>>

\* GLTF.load(uri) on a response with these bytes
StaticRead ==
    /\ container # <<>>
    /\ outcome.status = "none"
    /\ outcome' = ReadContainer(container)
    /\ UNCHANGED <<registryVars, graphVars, loadVars, addLog, lookup, poolVars,
                   container, origin>>

NextContainer ==
    \/ Encode
    \/ EncodeMalformed
    \/ StaticRead

SpecContainer == Init /\ [][NextContainer]_vars

\* ------------------------------------------------- the decoder worker pool
\* The loads of this part are loads of KHR_draco_mesh_compression blocks
\* whose buffer and accessors are loaded already.

\* a worker whose failures escape: no catch, nothing is posted
RepliesNoCatch(decoder, m, decoded) ==
    IF decoder /\ decoded THEN <<Msg(m.taskId, "ok", m.payload)>> ELSE <<>>

\* a worker whose failure reply leaves the task id out
RepliesNoTaskId(decoder, m, decoded) ==
    IF decoder /\ decoded THEN <<Msg(m.taskId, "ok", m.payload)>>
    ELSE <<Msg(0, "error", 0)>>

\* self.onmessage for a decode message m: what the worker posts.  With no
\* decoder yet, new draco.Decoder() throws inside the try block.
Replies(decoder, m, decoded) ==
    IF decoder /\ decoded THEN <<Msg(m.taskId, "ok", m.payload)>>
    ELSE <<Msg(m.taskId, "error", 0)>>

\* after the reply: the attributes are copied when there is no
\* SharedArrayBuffer, the indices always
Materialize(sab) ==
    (IF sab THEN {} ELSE {"attributes"}) \cup {"indices"}

\* extension.load(abortCtl) is called: await workerHelper.init().  The
\* loads are called in the order of their numbers.
CallerLoad ==
    /\ \E r \in Tasks :
        /\ callers[r].pc = "none"
        /\ \A q \in 1..(r - 1) : callers[q].pc # "none"
        /\ callers' = [callers EXCEPT ![r].pc = "init"]
    /\ UNCHANGED <<registryVars, graphVars, loadVars, addLog, lookup, containerVars,
                   workers, pool, shared, replyLog>>

\* the ready workers that have no task
IdleWorkers == {w \in pool.ready : pool.busy[w] = 0}

\* init() is fulfilled once a worker is ready; the loads that await it go
\* on in the order in which they began to wait, to
\* workerHelper.postMessage({ type: 'decode', ... }), which takes the next
\* task id and gives the message to an idle ready worker, or queues it
\* when every ready worker has a task
CallerPost ==
    /\ \E r \in Tasks :
        /\ callers[r].pc = "init"
        /\ \A q \in 1..(r - 1) : callers[q].pc # "init"
        /\ pool.ready # {}
        /\ LET m == Msg(pool.nextId, "decode", r)
               pl == [pool EXCEPT !.pending[r] = pool.nextId, !.nextId = @ + 1]
           IN IF IdleWorkers = {}
              THEN /\ pool' = [pl EXCEPT !.queue = Append(@, m)]
                   /\ UNCHANGED workers
              ELSE \E w \in IdleWorkers :
                       /\ pool' = [pl EXCEPT !.busy[w] = m.taskId]
                       /\ workers' = [workers EXCEPT ![w].inbox = Append(@, m)]
        /\ callers' = [callers EXCEPT ![r].pc = "decode"]
    /\ UNCHANGED <<registryVars, graphVars, loadVars, addLog, lookup, containerVars, shared, replyLog>>

\* a worker that posts its sentinel when it starts
WorkerBootEarly ==
    /\ \E w \in Workers :
        /\ ~workers[w].sentinel
        /\ workers' = [workers EXCEPT
                          ![w].sentinel = TRUE,
                          ![w].outbox = Append(@, Msg(0, "ready", 0))]
    /\ UNCHANGED <<registryVars, graphVars, loadVars, addLog, lookup, containerVars,
                   pool, callers, shared, replyLog>>

\* importUMD(...).then: draco = await ...; self.postMessage({ taskId: 0 })
WorkerBoot ==
    /\ \E w \in Workers :
        /\ ~workers[w].draco
        /\ workers' = [workers EXCEPT
                          ![w].draco = TRUE,
                          ![w].sentinel = TRUE,
                          ![w].outbox = Append(@, Msg(0, "ready", 0))]
    /\ UNCHANGED <<registryVars, graphVars, loadVars, addLog, lookup, containerVars,
                   pool, callers, shared, replyLog>>

\* self.onmessage: the worker handles the oldest message it was given
WorkerHandle ==
    /\ \E w \in Workers, decoded \in BOOLEAN :
        /\ workers[w].inbox # <<>>
        /\ LET m == Head(workers[w].inbox)
               out == Replies(workers[w].draco, m, decoded)
           IN /\ workers' = [workers EXCEPT ![w].inbox = Tail(@),
                                            ![w].outbox = @ \o out]
              /\ replyLog' = [replyLog EXCEPT ![m.taskId] = Append(@, out)]
    /\ UNCHANGED <<registryVars, graphVars, loadVars, addLog, lookup, containerVars,
                   pool, callers, shared>>

\* typeof SharedArrayBuffer === 'undefined': the host answers the same
\* every time
Probe == IF shared = "unprobed" THEN {"yes", "no"} ELSE {shared}

\* the pool's onmessage: the sentinel marks the worker ready; a reply
\* frees the worker and settles the load that is pending under its task
\* id.  The worker, now idle, is given the oldest queued message.
Receive ==
    /\ \E w \in Workers :
        /\ workers[w].outbox # <<>>
        /\ LET m == Head(workers[w].outbox)
               owners == {r \in Tasks : pool.pending[r] = m.taskId
                                           /\ callers[r].pc = "decode"}
               more == pool.queue # <<>>
               next == IF more THEN Head(pool.queue).taskId ELSE 0
           IN /\ workers' =
                    [workers EXCEPT
                        ![w].outbox = Tail(@),
                        ![w].inbox = IF more THEN Append(@, Head(pool.queue))
                                     ELSE @]
              /\ pool' = [pool EXCEPT
                             !.ready = @ \cup {w},
                             !.busy[w] = next,
                             !.queue = IF more THEN Tail(@) ELSE @]
              /\ IF m.taskId # 0 /\ m.kind = "ok" /\ owners # {}
                 THEN \E host \in Probe :
                        /\ shared' = host
                        /\ callers' =
                              [r \in Tasks |->
                                  IF r \in owners
                                  THEN [pc |-> "ok", got |-> m.payload,
                                        copied |-> Materialize(host = "yes")]
                                  ELSE callers[r]]
                 ELSE /\ shared' = shared
                      /\ callers' =
                            [r \in Tasks |->
                                IF m.taskId # 0 /\ r \in owners
                                THEN [callers[r] EXCEPT !.pc = "rejected"]
                                ELSE callers[r]]
    /\ UNCHANGED <<registryVars, graphVars, loadVars, addLog, lookup, containerVars, replyLog>>

NextPool ==
    \/ CallerLoad
    \/ CallerPost
    \/ WorkerBoot
    \/ WorkerHandle
    \/ Receive

SpecPool == Init /\ [][NextPool]_vars


\* ------------------------------------------------------------ properties
Settled(id) == call[id].pc \in {"ok", "rejected"}
Started(id) == call[id].pc # "none"
NoDirectMeshCall == \A m \in 1..MaxCalls : ~Started(MeshCall(m))

\* C1: load is at-most-once per record: however many times the load of
\* the root or of the mesh is invoked, each primitive's load, each item's
\* load, the buffer's fetch and the decode request run at most once.
C1_LoadAtMostOnce == \A k \in RunKeys \ {MeshRec} : runs[k] <= 1

\* C2: during a root load in which the buffer is reached from the buffers
\* collection, from the Values block and from the compressed primitive, the
\* buffer's load body (its fetch and population) runs exactly once.
C2_BufferFetchedOnce ==
    /\ runs[Buf] <= 1
    /\ (\E i \in 1..MaxCalls : call[RootCall(i)].pc \in {"items", "super", "ok"})
          => runs[Buf] = 1

C2_Witness ==
    /\ \E i \in 1..MaxCalls : call[RootCall(i)].pc = "ok"
    /\ call[Val].pc = "ok"
    /\ call[DracoExt(1)].pc = "ok"
    /\ runs[Buf] = 1

\* C3: a mesh's load is fulfilled only when every one of its primitives'
\* loads is fulfilled, and the root's load is past its collections only
\* when every item's load is fulfilled.
C3_ParentAfterChildren ==
    /\ \A m \in 0..MaxCalls :
          call[MeshCall(m)].pc = "ok"
              => \A p \in Prims : call[PrimCall(m, p)].pc = "ok"
    /\ \A i \in 1..MaxCalls :
          call[RootCall(i)].pc \in {"super", "ok"}
              => \A f \in {Buf, View, Val, Acc(0), Acc(1), MeshCall(0)}
                          \cup {PrimCall(0, p) : p \in Prims}
                          \cup {DracoExt(p) : p \in Compressed} :
                     call[f].pc = "ok"

C3_Witness ==
    /\ \E i \in 1..MaxCalls : call[RootCall(i)].pc = "ok"
    /\ \E m \in 1..MaxCalls : call[MeshCall(m)].pc = "ok"

\* C4: when a child's load has failed, the parent awaiting it fails with
\* the error of a failed child (of the failed child, when there is one)
\* and is never fulfilled.
FailedOf(kids) == {k \in kids : call[k].pc = "rejected"}

FailFast(parent, kids) ==
    FailedOf(kids) # {}
        => /\ call[parent].pc \in {"prims", "items", "rejected"}
           /\ \E k \in FailedOf(kids) : call[parent].err = call[k].err

C4_FailFast ==
    /\ \A m \in 0..MaxCalls :
          Started(MeshCall(m))
              => FailFast(MeshCall(m), {PrimCall(m, p) : p \in Prims})
    /\ \A i \in 1..MaxCalls :
          (call[RootCall(i)].pc \in {"items", "super", "ok"}
              \/ (call[RootCall(i)].pc = "rejected"
                    /\ call[RootCall(i)].err.name # "ExtensionLoadError"))
              => FailFast(RootCall(i), {Buf, View, Acc(0), Acc(1), MeshCall(0)})

C4_Witness ==
    /\ call[DracoExt(1)].pc = "rejected"
    /\ call[DracoExt(1)].err.name = "DecodeError"
    /\ call[MeshCall(0)].pc = "rejected"
    /\ \E i \in 1..MaxCalls :
          /\ call[RootCall(i)].pc = "rejected"
          /\ call[RootCall(i)].err = call[DracoExt(1)].err

\* C5: the signal given to the root's load is given to every load started
\* under it, the primitives' loads and the extension's decode included.
C5_SignalThreaded ==
    NoDirectMeshCall =>
        \A f \in ItemFrames : Started(f) => call[f].sig

\* C6: a load during which cancellation was requested while a fetch or a
\* decode was outstanding settles in the cancellation outcome only.
C6_CancelSettlesCancelled ==
    NoDirectMeshCall =>
        \A id \in cancelScope :
            Settled(id) =>
                call[id].pc = "rejected" /\ call[id].err.name = "AbortError"

\* C7: no load has begun on a graph unless its constructor returned with
\* every reference field resolved.
C7_DereferencedBeforeLoad ==
    (\/ \E id \in CallIds \ {StaticCall} : Started(id)
     \/ call[StaticCall].pc \in {"root", "ok"})
        => gltf = "constructed" /\ Dereferenced

C7_Witness ==
    /\ call[Val].pc = "buffer"
    /\ refs[Val] = View
    /\ call[StaticCall].pc = "root"

\* the version numbers a version string stands for, read off the strings
MajorOf(v) == CASE v = V10 -> 1 [] v = V20 -> 2 [] v = V21 -> 2
                [] v = V30 -> 3 [] v = V2 -> 2
MinorOf(v) == CASE v = V21 -> 1 [] OTHER -> 0

VersionRejected == gltf = "failed" /\ thrown.name = "Unsupported glTF version"
ExtensionRejected == gltf = "failed" /\ thrown.name = "Unsupported glTF extension"
MinVersionGiven == doc.minVersion # Absent

\* C8 (as stated): construction fails with the unsupported-version error
\* unless the major of asset.version is 2 and, when asset.minVersion is
\* given, the minor of asset.minVersion is <= 0; a document with
\* asset.version "1.0" is rejected.
C8_VersionGateAsStated ==
    gltf # "none" =>
        /\ VersionRejected <=>
              ~(MajorOf(doc.version) = 2
                  /\ (MinVersionGiven => MinorOf(doc.minVersion) <= 0))
        /\ doc.version = V10 => VersionRejected

\* C8 (amended): construction fails with the unsupported-version error
\* unless the major of asset.minVersion when it is given, of asset.version
\* otherwise, is 2 and, when asset.minVersion is given, its minor is <= 0;
\* "1.0" without minVersion is rejected, and "2.0" without minVersion and
\* without required extensions is accepted.
C8_VersionGate ==
    gltf # "none" =>
        LET eff == IF MinVersionGiven THEN doc.minVersion ELSE doc.version
        IN /\ VersionRejected <=>
                 ~(MajorOf(eff) = 2 /\ (MinVersionGiven => MinorOf(eff) <= 0))
           /\ (doc.version = V10 /\ ~MinVersionGiven) => VersionRejected
           /\ (doc.version = V20 /\ ~MinVersionGiven
                 /\ doc.extensionsRequired = <<>> /\ doc.bufferView = 0)
                 => gltf = "constructed"

C8_Witness ==
    /\ gltf = "constructed"
    /\ doc.version = V10
    /\ doc.minVersion = V20

\* C9: a constructor call on a document that requires a name not in the
\* registry at that moment fails; unless the version gate rejects the
\* document first, the error is the unsupported-extension error for the
\* first such name.
NotRegistered(req) ==
    {k \in DOMAIN req : req[k] \notin supportedExtensions}

C10_GateBeforeAnything ==
    (VersionRejected \/ ExtensionRejected) =>
        /\ records = {}
        /\ refs = EmptyFn
        /\ \A id \in CallIds \ {StaticCall} : ~Started(id)
        /\ \A k \in RunKeys : runs[k] = 0

C10_Witness ==
    /\ ExtensionRejected
    /\ call[StaticCall].pc = "rejected"
    /\ call[StaticCall].err = thrown

\* C11: for a document that passes the gate, a `scene` index inside the
\* scenes collection makes the root's scene that Scene, and an index outside
\* it (negative, or >= the size) makes construction fail with a
\* ReferenceError.
C11_SceneDereferenced ==
    (gltf # "none" /\ ~VersionRejected /\ ~ExtensionRejected) =>
        IF doc.scene \in 0..(NumScenes - 1)
        THEN gltf = "constructed" => refs[Root] = Scene(doc.scene)
        ELSE gltf = "failed" /\ thrown.name = "ReferenceError"

\* C12: getFactory(kind, name) is the factory of the most recent add call
\* for that name whose schema had that kind, and nothing when there was no
\* such call; so an add for one pair leaves every other pair as it was.
Max(S) == CHOOSE x \in S : \A y \in S : x >= y

Supplied(kind, name) ==
    {i \in DOMAIN addLog :
        addLog[i][1] = name /\ kind \in DOMAIN addLog[i][2].schema}

C12_LastRegistrationWins ==
    \A kind \in Kinds, name \in {Draco, HostExt} :
        getFactory(kind, name) =
            IF Supplied(kind, name) = {} THEN "undefined"
            ELSE addLog[Max(Supplied(kind, name))][2].schema[kind]

C12_Witness ==
    /\ Len(addLog) = 3
    /\ Supplied("Primitive", Draco) = {1, 3}
    /\ Supplied("Primitive", HostExt) = {2}
    /\ getFactory("Primitive", Draco) = "OtherFactory"
    /\ getFactory("Primitive", HostExt) = DracoFactory
    /\ getFactory("Material", Draco) = "undefined"

\* ------------------------------------------------- the decoder worker pool
Final(r) == callers[r].pc \in {"ok", "rejected"}
\* the load that posted the request with task id t
Poster(t) == CHOOSE r \in Tasks : pool.pending[r] = t
Posted(t) == \E r \in Tasks : pool.pending[r] = t

\* C13: a worker handles a decode request once and posts one message for
\* it, with the request's task id: a success with the request's own arrays
\* or a failure; a load is fulfilled with the arrays of its own request;
\* and as long as a load is unsettled something can still happen, so m
\* requests on fewer workers all complete.
C13_ReplyCorrelation ==
    /\ \A t \in Tasks :
          /\ Len(replyLog[t]) <= 1
          /\ \A i \in DOMAIN replyLog[t] :
                LET out == replyLog[t][i]
                IN /\ Posted(t)
                   /\ Len(out) = 1
                   /\ out[1].taskId = t
                   /\ \/ out[1] = Msg(t, "ok", Poster(t))
                      \/ out[1] = Msg(t, "error", 0)
    /\ \A r \in Tasks :
          callers[r].pc = "ok" =>
              /\ callers[r].got = r
              /\ replyLog[pool.pending[r]] = <<<<Msg(pool.pending[r], "ok", r)>>>>
    /\ (\A r \in Tasks : Final(r)) \/ ENABLED NextPool

C13_Witness ==
    /\ pool.queue # <<>>
    /\ \A w \in Workers : pool.busy[w] # 0
    /\ \E w \in Workers :
          /\ workers[w].outbox # <<>>
          /\ Head(workers[w].outbox).taskId = pool.busy[w]

\* C14: a worker has posted its sentinel only with its decoder loaded, and
\* a worker that was given a decode task has posted its sentinel, also
\* when other workers of the pool are not ready yet.
C14_ReadinessHandshake ==
    \A w \in Workers :
        /\ workers[w].sentinel => workers[w].draco
        /\ (pool.busy[w] # 0 \/ workers[w].inbox # <<>>)
              => workers[w].sentinel /\ w \in pool.ready
        /\ w \in pool.ready => workers[w].sentinel

C14_Witness ==
    \E w, v \in Workers :
        /\ workers[w].inbox # <<>>
        /\ workers[w].sentinel
        /\ ~workers[v].sentinel

\* C15: a load is rejected only by the failure reply of its own task; a
\* task whose reply is a success is not failed by another task's failure;
\* and every request of an unsettled load is still queued, with a worker,
\* or answered by a message on its way, whatever failed before.
InFlight(t) ==
    \/ \E i \in DOMAIN pool.queue : pool.queue[i].taskId = t
    \/ \E w \in Workers :
          \/ \E i \in DOMAIN workers[w].inbox : workers[w].inbox[i].taskId = t
          \/ \E i \in DOMAIN workers[w].outbox : workers[w].outbox[i].taskId = t

C15_FailureIsolation ==
    \A r \in Tasks :
        LET t == pool.pending[r]
        IN /\ callers[r].pc = "rejected"
                => replyLog[t] = <<<<Msg(t, "error", 0)>>>>
           /\ (t # 0 /\ replyLog[t] = <<<<Msg(t, "ok", r)>>>>)
                => callers[r].pc \in {"decode", "ok"}
           /\ callers[r].pc = "decode" => InFlight(t)
           /\ Final(r) => ~InFlight(t)

C15_Witness ==
    /\ callers[1].pc = "rejected"
    /\ \A r \in Tasks \ {1} : callers[r].pc = "ok"
    /\ \A w \in Workers : pool.busy[w] = 0

\* C20: a load that was fulfilled copied nothing from the reply when the
\* host has shared memory, and copied every attribute and the indices when
\* it has not.
C20_CopyOnlyWithoutSharedMemory ==
    \A r \in Tasks :
        callers[r].pc = "ok" =>
            callers[r].copied =
                IF shared = "yes" THEN {} ELSE {"attributes", "indices"}

C17_MalformedRejected ==
    (origin.kind \in Damages /\ outcome.status # "none") =>
        /\ outcome.status = "rejected"
        /\ ~outcome.constructed

\* ------------------------------------------------------ load after failure
\* the executions counted for the item of a frame: its load body, and for a
\* compressed primitive's extension its decode request
KeysOf(id) ==
    CASE id[1] = "mesh" -> {MeshRec}
      [] id[1] = "prim" -> {PrimRec(id[3])}
      [] id[1] = "draco" -> {id, Decode(id[3])}
      [] OTHER -> {id}

\* root load j was rejected with the failure of an item
FailedOnItem(j) ==
    /\ call[RootCall(j)].pc = "rejected"
    /\ call[RootCall(j)].err.at \in ItemFrames

\* C18: once a root load has failed on an item, no step of another
\* invocation of the root's load runs the load, fetch or decode of an item
\* that had succeeded again, and such an item keeps its loaded state.
C18_ReloadKeepsSuccesses ==
    [][(\E i, j \in 1..MaxCalls :
            /\ i # j
            /\ FailedOnItem(j)
            /\ call'[RootCall(i)] # call[RootCall(i)])
        => /\ \A id \in ItemFrames :
                call[id].pc = "ok" =>
                    /\ call'[id] = call[id]
                    /\ \A k \in KeysOf(id) : runs'[k] = runs[k]
           /\ captured => captured']_vars

\* the second invocation has gone through the collections after the first
\* failed on the decode, with the buffer fetched once
C18_Witness ==
    /\ FailedOnItem(1)
    /\ call[RootCall(1)].err.name = "DecodeError"
    /\ call[RootCall(2)].pc \in {"items", "rejected"}
    /\ call[RootCall(2)].err.name = "DecodeError"
    /\ call[Buf].pc = "ok"
    /\ runs[Buf] = 1

\* ------------------------------------------------- bytes read after load
\* the extension of primitive p has read the buffer's bytes and the
\* accessors' typed arrays and posted its decode request
HasPosted(p) == runs[Decode(p)] >= 1

\* C19: the Values block has captured its buffer's bytes only if the load
\* of that buffer is complete, and a compressed primitive's extension has
\* read the bytes and the typed arrays and posted its decode request only
\* if the loads of the buffer and of the indices and attribute accessors
\* are complete.
C19_BytesReadAfterLoad ==
    /\ captured => call[Buf].pc = "ok"
    /\ \A p \in Compressed :
          HasPosted(p) =>
              /\ call[Buf].pc = "ok"
              /\ call[Acc(0)].pc = "ok"
              /\ call[Acc(1)].pc = "ok"

C19_Witness ==
    /\ captured
    /\ \E p \in Compressed : HasPosted(p) /\ call[DracoExt(p)].pc = "decode"
    /\ call[Buf].pc = "ok"
    /\ runs[Buf] = 1

\* ---------------------------------------------------- base-class load hook
\* the frames of the record kinds that define their own load
OwnLoadFrames == {id \in CallIds : id[1] \in {"root", "mesh", "val", "draco"}}

\* C21: a load of a record kind that defines its own load is fulfilled only
\* from the base-class load it awaits after its own logic: the step that
\* fulfils the frame leaves the pc at which super.load is awaited.
C21_BaseLoadAfterOwnLogic ==
    [][\A id \in OwnLoadFrames :
          (call'[id].pc = "ok" /\ call[id].pc # "ok") => call[id].pc = "super"]_vars

\* ------------------------------------------- required extensions accepted
\* C22: a document of version "2.0" whose required names are all registered
\* passes the gate and, its references resolving, is constructed; a root
\* load then invokes the load hook of every registered extension before it
\* touches an item, and goes on to the collections only when the hooks are
\* fulfilled.
C22_RequiredAccepted ==
    /\ []((/\ gltf # "none"
           /\ doc.version = V20 /\ doc.minVersion = Absent
           /\ NotRegistered(doc.extensionsRequired) = {})
          => /\ ~VersionRejected /\ ~ExtensionRejected
             /\ doc.bufferView = 0 => gltf = "constructed")
    /\ [][\A i \in 1..MaxCalls :
            /\ (call[RootCall(i)].pc = "none" /\ call'[RootCall(i)].pc # "none")
                => /\ call'[RootCall(i)].pc = "ext"
                   /\ loadHooks # {} => call'[HookCall(i)].pc = "run"
                   /\ runs' = runs
                   /\ \A id \in ItemFrames : call'[id] = call[id]
            /\ (call[RootCall(i)].pc # "items" /\ call'[RootCall(i)].pc = "items")
                => /\ call[RootCall(i)].pc = "ext"
                   /\ loadHooks # {} => call[HookCall(i)].pc = "ok"]_vars

C22_Witness ==
    /\ gltf = "constructed"
    /\ doc.extensionsRequired = <<Draco, HostExt>>
    /\ loadHooks = {HostExt}
    /\ call[HookCall(1)].pc = "ok"
    /\ call[RootCall(1)].pc = "items"
    /\ runs[Buf] = 1

\* ------------------------------------------------- registry consistency
\* a factory is registered for (kind, name) in the table sch
HasFactory(sch, kind, name) == kind \in DOMAIN sch /\ name \in DOMAIN sch[kind]

\* C23: in every state reached by add, getFactory and isSupported calls, a
\* name for which getFactory returns a factory is supported; no step
\* removes a supported name or a registered factory; and a getFactory or
\* isSupported call leaves the registry as it was.
C23_RegistryConsistent ==
    /\ [](\A kind \in Kinds, name \in ExtNames :
            getFactory(kind, name) # "undefined" => isSupported(name))
    /\ [][/\ supportedExtensions \subseteq supportedExtensions'
          /\ \A kind \in Kinds, name \in ExtNames :
                HasFactory(schemas, kind, name) => HasFactory(schemas', kind, name)
          /\ lookup' # lookup => UNCHANGED registryVars]_vars

\* a factory registered by a second add under a new kind has been looked up
C23_Witness ==
    /\ Len(addLog) = MaxAdds
    /\ lookup.op = "getFactory"
    /\ lookup.args = <<"Material", HostExt>>
    /\ lookup.result = "OtherFactory"
    /\ isSupported(HostExt)
    /\ getFactory("Primitive", Draco) = DracoFactory

====
